---- MODULE Spec2Model ----
(***************************************************************************)
(* AdAPT: the ad-generation pipeline (pipeline.py), the run ledger written  *)
(* by initiate_hitl_task, the review UI that resolves approval tasks        *)
(* (hitl_ui/main.py) and the video generator component with its job poll    *)
(* loop (components/video_generator/main.py).                               *)
(*                                                                         *)
(* The pipeline, the HTTP function and the review UI are separate           *)
(* processes.  They share only the Firestore ledger and the GCS bucket, so  *)
(* every external effect of a handler (a commit, a blob write) is one step  *)
(* and steps of different requests interleave.                              *)
(***************************************************************************)
EXTENDS Integers, Sequences, FiniteSets, TLC

VARIABLES
    runDoc,     \* Firestore pipeline_runs/<id>
    taskDoc,    \* Firestore pipeline_runs/<id>/hitl_tasks/<name>
    gcs,        \* GCS: number of uploads each blob has received (0: no blob)
    submitted,  \* pipeline jobs submitted to the pipeline service
    stage,      \* state of each pipeline task of each run
    video,      \* locals and position of the video component's main()
    job,        \* the external video job service, one job per run
    reqs,       \* POST /task/<run>/<name> requests being handled
    nreq,       \* POST requests received so far
    now,        \* the clock read by datetime.now
    gen,        \* one invocation of a function that calls the generative model
    web,        \* the web application: one browser session and its last answer
    http        \* the last request to the ledger's HTTP handlers that was
                \* answered at once, and its answer

pipeline_vars ==
    <<runDoc, taskDoc, gcs, submitted, stage, video, job, reqs, nreq, now, http>>

vars == <<runDoc, taskDoc, gcs, submitted, stage, video, job, reqs, nreq, now,
          gen, web, http>>

(***************************************************************************)
(* Bounds of the model.                                                    *)
(***************************************************************************)
MaxClock == 3       \* ledger writes that read the clock
MaxRequests == 3    \* POST requests to the review UI
MaxPolls == 6       \* status polls of one video job

Runs == {"r1"}              \* the run the full model follows
AllRuns == {"r1", "r2"}     \* the pipeline job ids there are
Users == {"user@example.com"}
Approvers == {"alice", "None"}      \* "None": the form carries no approved_by

T1 == "analysis_review"
T2 == "prompt_review"       \* any task name other than analysis_review
TaskNames == {T1, T2}

(***************************************************************************)
(* Blob names of one run (pipeline.py, adapt_pipeline) and the fixed URIs   *)
(* that save_json_to_gcs returns.                                           *)
(***************************************************************************)
RunBlobNames ==
    {"analysis_usp.json", "analysis_style.json", "ad_brief.json",
     "veo3_prompt_approved.json", "final_video.mp4",
     "approval_gate_1.txt", "approval_gate_2.txt"}

Uri(root, name) == <<root, name>>

usp_output_path(r) == Uri(r, "analysis_usp.json")
style_output_path(r) == Uri(r, "analysis_style.json")
brief_output_path(r) == Uri(r, "ad_brief.json")
final_prompt_path(r) == Uri(r, "veo3_prompt_approved.json")
video_output_path(r) == Uri(r, "final_video.mp4")
\* a faulty variant: one gate-1 location for all runs
approval_gate_1_uri_Shared(r) == Uri("r1", "approval_gate_1.txt")

approval_gate_1_uri(r) == Uri(r, "approval_gate_1.txt")
approval_gate_2_uri(r) == Uri(r, "approval_gate_2.txt")

\* a faulty variant: the edited analysis is saved under the path it was read from
save_json_to_gcs_InPlace(filename) ==
    IF filename = "analysis_usp_approved.json"
    THEN usp_output_path(CHOOSE r \in Runs : TRUE)
    ELSE style_output_path(CHOOSE r \in Runs : TRUE)

save_json_to_gcs(filename) == Uri("bucket", filename)

ApprovedNames == {"analysis_usp_approved.json", "analysis_style_approved.json"}

Uris == (AllRuns \X RunBlobNames) \cup ({"bucket"} \X ApprovedNames)
NoUri == <<"", "">>

Exists(uri) == gcs[uri] > 0
Upload(uri) == [gcs EXCEPT ![uri] = @ + 1]

(***************************************************************************)
(* Ledger documents.                                                       *)
(***************************************************************************)
NoRun ==
    [status |-> "ABSENT", createdBy |-> "None", createdAt |-> 0,
     finalVideoPath |-> NoUri]

NoTask ==
    [status |-> "ABSENT", createdAt |-> 0, approvedBy |-> "None",
     approvedAt |-> 0, inputs |-> {}, outputs |-> {}, gateFileUri |-> NoUri]

Stages == {"usp", "style", "hitl_1", "brief", "hitl_2", "video"}

IdleVideo ==
    [pc |-> "idle", job_id |-> FALSE, status |-> "", video_url |-> FALSE,
     posts |-> 0, sleeps |-> 0, slept |-> 0, polls |-> 0, fetches |-> 0,
     err |-> "none"]

NoJob == [exists |-> FALSE, final |-> "", nonterminal |-> 0, terminal |-> 0]

NoError == [error_type |-> "", full_error |-> {}, raw_response |-> "",
            suggestion |-> FALSE]

IdleGen ==
    [fn |-> "", pc |-> "idle", calls |-> 0, text |-> "", exc_type |-> "",
     exc |-> {},
     result |-> "none", error |-> NoError, wrote |-> FALSE, answer |-> 0,
     blob |-> "none"]

\* the fields initiate_hitl_task takes from the JSON body; a field of a body
\* is absent ("None", what get() gives), the empty string, or given
Fields ==
    {"pipelineJobId", "gcsRootPath", "userEmail", "uspAnalysisUri",
     "styleAnalysisUri", "gateFileUri"}

NoBody == [is_json |-> FALSE, data |-> [f \in Fields |-> "None"]]

\* no request answered yet
NoResponse == [handler |-> "", code |-> 0, body |-> NoBody, tasks |-> {}]

NoBrief == [brief_of |-> 0, style_of |-> 0, script |-> <<>>]

NoAnswer == [route |-> "", response |-> "", called |-> "none"]

\* the poll loop of the web application's generate_video before it has run
NoPoll == [submitted |-> FALSE, first |-> "", sleeps |-> 0, slept |-> 0,
           gets |-> 0, outcome |-> ""]

\* an empty session: analysis_data and ad_brief hold the number of the
\* analysis version they carry (0: key absent)
NewSession ==
    [analysis_data |-> 0, ad_brief |-> 0, final_brief |-> NoBrief,
     video_result |-> "", durationSeconds |-> 0, versions |-> 0,
     poll |-> NoPoll, last |-> NoAnswer]

Init ==
    /\ runDoc = [r \in AllRuns |-> NoRun]
    /\ taskDoc = [r \in AllRuns |-> [t \in TaskNames |-> NoTask]]
    /\ gcs = [u \in Uris |-> 0]
    /\ submitted = {}
    /\ stage = [r \in AllRuns |-> [s \in Stages |-> "NOT_STARTED"]]
    /\ video = [r \in AllRuns |-> IdleVideo]
    /\ job = [r \in AllRuns |-> NoJob]
    /\ reqs = {}
    /\ nreq = 0
    /\ now = 0
    /\ gen = IdleGen
    /\ web = NewSession
    /\ http = NoResponse

(***************************************************************************)
(* initiate_hitl_task: one batch, set() on the run document and on the      *)
(* analysis_review task document, then commit.  set() replaces a document   *)
(* that already exists.                                                     *)
(***************************************************************************)
NewRunData(r, user, t) ==
    [status |-> "PENDING_APPROVAL", createdBy |-> user, createdAt |-> t,
     finalVideoPath |-> NoUri]

NewTaskData(r, t) ==
    [status |-> "PENDING", createdAt |-> t, approvedBy |-> "None",
     approvedAt |-> 0,
     inputs |-> {usp_output_path(r), style_output_path(r)},
     outputs |-> {},
     gateFileUri |-> approval_gate_1_uri(r)]

\* a faulty variant: the two documents are written one by one, and a failure
\* comes after the first write
initiate_hitl_task_TwoWrites(r, user, valid, commit_ok) ==
    /\ IF valid
       THEN /\ now' = now + 1
            /\ runDoc' = [runDoc EXCEPT ![r] = NewRunData(r, user, now + 1)]
            /\ taskDoc' = IF commit_ok
                          THEN [taskDoc EXCEPT ![r][T1] = NewTaskData(r, now + 1)]
                          ELSE taskDoc
       ELSE UNCHANGED <<runDoc, taskDoc, now>>
    /\ UNCHANGED <<gcs, submitted, stage, video, job, reqs, nreq, gen, web, http>>

initiate_hitl_task(r, user, valid, commit_ok) ==
    /\ IF valid /\ commit_ok
       THEN /\ now' = now + 1
            /\ runDoc' = [runDoc EXCEPT ![r] = NewRunData(r, user, now + 1)]
            /\ taskDoc' = [taskDoc EXCEPT ![r][T1] = NewTaskData(r, now + 1)]
       ELSE UNCHANGED <<runDoc, taskDoc, now>>
    /\ UNCHANGED <<gcs, submitted, stage, video, job, reqs, nreq, gen, web, http>>

(***************************************************************************)
(* initiate_hitl_task with its request body.  A body is JSON or not; a JSON *)
(* body gives each field absent, empty or given; a given pipelineJobId is   *)
(* the id of the run the model follows and the given URIs are that run's.   *)
(***************************************************************************)
GivenBody == [is_json |-> TRUE, data |-> [f \in Fields |-> "given"]]

Bodies ==
    {NoBody, [is_json |-> TRUE, data |-> [f \in Fields |-> "None"]], GivenBody}
        \cup {[GivenBody EXCEPT !.data[f] = v] : f \in Fields, v \in {"None", ""}}

\* Python's truth value of a field
Truthy(v) == v = "given"

\* not request_json: get_json(silent=True) gives None unless the body is
\* JSON, and an object without any key is false as well
NoRequestJson(body) == ~body.is_json \/ \A f \in Fields : body.data[f] = "None"

\* the answer of initiate_hitl_task
initiate_response(body, commit_ok) ==
    IF NoRequestJson(body) THEN 400
    ELSE IF ~\A f \in Fields : Truthy(body.data[f]) THEN 400
    ELSE IF commit_ok THEN 201
    ELSE 500

\* a faulty variant: the batch is committed before the parameters are looked at
initiate_hitl_task_http_WriteFirst(r, user, body, commit_ok) ==
    /\ http' = [NoResponse EXCEPT !.handler = "initiate_hitl_task",
                                  !.code = initiate_response(body, commit_ok),
                                  !.body = body]
    /\ IF commit_ok
       THEN /\ now' = now + 1
            /\ runDoc' = [runDoc EXCEPT ![r] = NewRunData(r, user, now + 1)]
            /\ taskDoc' = [taskDoc EXCEPT ![r][T1] = NewTaskData(r, now + 1)]
       ELSE UNCHANGED <<runDoc, taskDoc, now>>
    /\ UNCHANGED <<gcs, submitted, stage, video, job, reqs, nreq, gen, web>>

\* initiate_hitl_task, the request and its answer: r and user are what a
\* given pipelineJobId and userEmail name
initiate_hitl_task_http(r, user, body, commit_ok) ==
    /\ http' = [NoResponse EXCEPT !.handler = "initiate_hitl_task",
                                  !.code = initiate_response(body, commit_ok),
                                  !.body = body]
    /\ IF initiate_response(body, commit_ok) = 201
       THEN /\ now' = now + 1
            /\ runDoc' = [runDoc EXCEPT ![r] = NewRunData(r, user, now + 1)]
            /\ taskDoc' = [taskDoc EXCEPT ![r][T1] = NewTaskData(r, now + 1)]
       ELSE UNCHANGED <<runDoc, taskDoc, now>>
    /\ UNCHANGED <<gcs, submitted, stage, video, job, reqs, nreq, gen, web>>

(***************************************************************************)
(* The approval gate in the ledger as the spec gives it (section 4.3,       *)
(* open): the repository creates no task other than analysis_review, yet    *)
(* task_details serves one.  The task is created when the pipeline starts   *)
(* to wait at the second gate; opening a task that exists changes nothing.  *)
(***************************************************************************)
SecondTaskData(r) ==
    [status |-> "PENDING", createdAt |-> now, approvedBy |-> "None",
     approvedAt |-> 0,
     inputs |-> {brief_output_path(r)},
     outputs |-> {},
     gateFileUri |-> approval_gate_2_uri(r)]

open_task(r) ==
    /\ stage[r]["hitl_2"] = "RUNNING"
    /\ taskDoc[r][T2].status = "ABSENT"
    /\ taskDoc' = [taskDoc EXCEPT ![r][T2] = SecondTaskData(r)]
    /\ UNCHANGED <<runDoc, gcs, submitted, stage, video, job, reqs, nreq, now, gen, web, http>>

(***************************************************************************)
(* task_details, POST.  The handler reads the task document, commits one    *)
(* batch with the update, then (any task but analysis_review) generates and *)
(* saves the video prompt, then creates the gate file.  The form field      *)
(* final_prompt_uri is the pipeline's final_prompt_path ("Save to           *)
(* final_prompt_path"), and a task's gateFileUri is the gate URI of its     *)
(* run, as the docstring of initiate_hitl_task gives it.  save_json_to_gcs  *)
(* uploads nothing.  An upload replaces a blob as a whole.                  *)
(***************************************************************************)
ResolveFields(by, t) ==
    [status |-> "COMPLETED", approvedBy |-> by, approvedAt |-> t,
     outputs |-> {save_json_to_gcs("analysis_usp_approved.json"),
                  save_json_to_gcs("analysis_style_approved.json")}]

\* a faulty variant: the status is updated on its own
BatchUpdate_StatusOnly(doc, fields) == [doc EXCEPT !.status = fields.status]

BatchUpdate(doc, fields) ==
    [doc EXCEPT !.status = fields.status,
                !.approvedBy = fields.approvedBy,
                !.approvedAt = fields.approvedAt,
                !.outputs = fields.outputs]

\* a faulty variant: the gate file is created right after the commit
AfterCommit_NoPrompt(task_name) == "gate"

AfterCommit(task_name) == IF task_name # T1 THEN "prompt" ELSE "gate"

\* a faulty variant: the handler does not look whether the document exists
task_ref_get_NoExistsTest(r, t, by) ==
    /\ nreq' = nreq + 1
    /\ reqs' = reqs \cup
            {[id |-> nreq + 1, run |-> r, task |-> t, approved_by |-> by,
              gate_uri |-> taskDoc[r][t].gateFileUri, pc |-> "update"]}

\* task_ref.get() and the test of task_doc.exists
task_ref_get(r, t, by) ==
    /\ nreq' = nreq + 1
    /\ IF taskDoc[r][t].status = "ABSENT"
       THEN reqs' = reqs       \* "Task not found", 404
       ELSE reqs' = reqs \cup
                {[id |-> nreq + 1, run |-> r, task |-> t, approved_by |-> by,
                  gate_uri |-> taskDoc[r][t].gateFileUri, pc |-> "update"]}

\* a faulty variant: the query has no filter on the status
pending_tasks_NoFilter ==
    {rt \in AllRuns \X TaskNames : taskDoc[rt[1]][rt[2]].status # "ABSENT"}

\* collection_group('hitl_tasks').where('status', '==', 'PENDING'): the
\* tasks of every run, each with its pipeline_job_id and task_name
pending_tasks ==
    {rt \in AllRuns \X TaskNames : taskDoc[rt[1]][rt[2]].status = "PENDING"}

\* GET / of the review UI: the list of pending tasks is rendered
hitl_ui_index ==
    /\ http' = [NoResponse EXCEPT !.handler = "index", !.code = 200,
                                  !.tasks = pending_tasks]
    /\ UNCHANGED <<runDoc, taskDoc, gcs, submitted, stage, video, job, reqs, nreq, now, gen, web>>

task_details_read(r, t, by) ==
    /\ task_ref_get(r, t, by)
    /\ UNCHANGED <<runDoc, taskDoc, gcs, submitted, stage, video, job, now, gen, web, http>>

\* the same step with the answer it gives at once, 404, kept
task_details_http(r, t, by) ==
    /\ task_ref_get(r, t, by)
    /\ http' = IF reqs' = reqs
               THEN [NoResponse EXCEPT !.handler = "task_details", !.code = 404]
               ELSE http
    /\ UNCHANGED <<runDoc, taskDoc, gcs, submitted, stage, video, job, now, gen, web>>

task_details_commit(q) ==
    /\ q \in reqs
    /\ q.pc = "update"
    /\ now' = now + 1
    /\ taskDoc' = [taskDoc EXCEPT ![q.run][q.task] =
                       BatchUpdate(@, ResolveFields(q.approved_by, now + 1))]
    /\ reqs' = (reqs \ {q}) \cup {[q EXCEPT !.pc = AfterCommit(q.task)]}
    /\ UNCHANGED <<runDoc, gcs, submitted, stage, video, job, nreq, gen, web, http>>

task_details_prompt(q, ok) ==
    /\ q \in reqs
    /\ q.pc = "prompt"
    /\ IF ok
       THEN /\ gcs' = Upload(final_prompt_path(q.run))
            /\ reqs' = (reqs \ {q}) \cup {[q EXCEPT !.pc = "gate"]}
       ELSE /\ reqs' = reqs \ {q}      \* generate_veo3_prompt raises: 500
            /\ UNCHANGED gcs
    /\ UNCHANGED <<runDoc, taskDoc, submitted, stage, video, job, nreq, now, gen, web, http>>

create_gate_file(q) ==
    /\ q \in reqs
    /\ q.pc = "gate"
    /\ gcs' = Upload(q.gate_uri)
    /\ reqs' = reqs \ {q}             \* "Approved and processed.", 200
    /\ UNCHANGED <<runDoc, taskDoc, submitted, stage, video, job, nreq, now, gen, web, http>>

(***************************************************************************)
(* The pipeline (adapt_pipeline): a task starts once every task it is       *)
(* declared after has succeeded; a task downstream of a failed task never   *)
(* starts.                                                                  *)
(***************************************************************************)
Upstream(s) ==
    CASE s = "usp" -> {}
      [] s = "style" -> {}
      [] s = "hitl_1" -> {"usp", "style"}
      [] s = "brief" -> {"hitl_1"}
      [] s = "hitl_2" -> {"brief"}
      [] s = "video" -> {"hitl_2"}

Ready(r, s) ==
    /\ r \in submitted
    /\ stage[r][s] = "NOT_STARTED"
    /\ \A u \in Upstream(s) : stage[r][u] = "SUCCEEDED"

StageInputs(r, s) ==
    CASE s = "brief" -> {usp_output_path(r), style_output_path(r)}
      [] OTHER -> {}

StageOutput(r, s) ==
    CASE s = "usp" -> usp_output_path(r)
      [] s = "style" -> style_output_path(r)
      [] s = "brief" -> brief_output_path(r)

GateUri(r, s) ==
    CASE s = "hitl_1" -> approval_gate_1_uri(r)
      [] s = "hitl_2" -> approval_gate_2_uri(r)

\* run_adapt_pipeline: job.submit()
run_adapt_pipeline(r) ==
    /\ r \notin submitted
    /\ submitted' = submitted \cup {r}
    /\ UNCHANGED <<runDoc, taskDoc, gcs, stage, video, job, reqs, nreq, now, gen, web, http>>

StartTask(r, s) ==
    /\ Ready(r, s)
    /\ stage' = [stage EXCEPT ![r][s] = "RUNNING"]
    /\ video' = IF s = "video" THEN [video EXCEPT ![r].pc = "main"] ELSE video
    /\ UNCHANGED <<runDoc, taskDoc, gcs, submitted, job, reqs, nreq, now, gen, web, http>>

\* the answers of a main_handler: 400 from the parameter checks, 500 from
\* the except clause, 200 at the end of the try block
StatusCodes == {200, 400, 500}

\* a faulty variant: the output is written before the step that may raise
HandlerWrites_BeforeCompute(code) == code # 400

\* write_json_to_gcs is the last statement before the 200 answer
HandlerWrites(code) == code = 200

\* main_handler of usp_extraction, brand_style_analysis, ad_brief_generator:
\* the handler answers 400 or 500 as chosen, and 500 when reading an input
\* raises; otherwise it writes its output and answers 200.
main_handler(r, s, code) ==
    /\ s \in {"usp", "style", "brief"}
    /\ stage[r][s] = "RUNNING"
    /\ LET answer == IF code = 200 /\ \E u \in StageInputs(r, s) : ~Exists(u)
                     THEN 500 ELSE code IN
       /\ gcs' = IF HandlerWrites(answer) THEN Upload(StageOutput(r, s)) ELSE gcs
       /\ stage' = [stage EXCEPT ![r][s] = IF answer = 200 THEN "SUCCEEDED"
                                                          ELSE "FAILED"]
    /\ UNCHANGED <<runDoc, taskDoc, submitted, video, job, reqs, nreq, now, gen, web, http>>

\* WaitGcpResourcesOp on the gate file: done once the gate file exists.
WaitGcpResourcesOp(r, s) ==
    /\ s \in {"hitl_1", "hitl_2"}
    /\ stage[r][s] = "RUNNING"
    /\ Exists(GateUri(r, s))
    /\ stage' = [stage EXCEPT ![r][s] = "SUCCEEDED"]
    /\ UNCHANGED <<runDoc, taskDoc, gcs, submitted, video, job, reqs, nreq, now, gen, web, http>>

(***************************************************************************)
(* The video job service (GET /jobs/<id>): a job gives non-terminal         *)
(* answers until it becomes final, and then gives its final answer to every *)
(* later poll.  The job counts the answers it gave.                         *)
(***************************************************************************)
NonTerminal == {"RUNNING", "None"}      \* "None": the answer has no status
Finals == {"SUCCEEDED", "SUCCEEDED_NO_URL", "FAILED"}
Answers == NonTerminal \cup Finals

\* the answers the job may give next
JobMayAnswer(j) == IF j.final = "" THEN Answers ELSE {j.final}

JobAfter(j, a) ==
    IF a \in NonTerminal
    THEN [j EXCEPT !.nonterminal = @ + 1]
    ELSE [j EXCEPT !.final = a, !.terminal = @ + 1]

status_data(a) ==
    CASE a = "SUCCEEDED" -> [status |-> "SUCCEEDED", outputUrl |-> TRUE]
      [] a = "SUCCEEDED_NO_URL" -> [status |-> "SUCCEEDED", outputUrl |-> FALSE]
      [] OTHER -> [status |-> a, outputUrl |-> FALSE]

(***************************************************************************)
(* The video generator component: main() and generate_video().             *)
(***************************************************************************)
Raise(r, e) ==
    /\ stage' = [stage EXCEPT ![r]["video"] = "FAILED"]

\* a faulty variant: the loop test forgets FAILED
PollAgain_UntilSucceeded(status) == status # "SUCCEEDED"

\* a faulty variant: the loop test forgets SUCCEEDED
PollAgain_UntilFailed(status) == status # "FAILED"

\* while status not in ["SUCCEEDED", "FAILED"]
PollAgain(status) == status \notin {"SUCCEEDED", "FAILED"}

\* a faulty variant: the test after the loop forgets the missing outputUrl
JobFailed_StatusOnly(status, video_url) == status = "FAILED"

\* if status == "FAILED" or not video_url: raise RuntimeError
JobFailed(status, video_url) == status = "FAILED" \/ ~video_url

video_main(r, api_key) ==
    /\ video[r].pc = "main"
    /\ IF ~api_key
       THEN /\ video' = [video EXCEPT ![r].pc = "failed", ![r].err = "ValueError_api_key"]
            /\ Raise(r, "ValueError")
       ELSE IF ~Exists(final_prompt_path(r))
       THEN /\ video' = [video EXCEPT ![r].pc = "failed", ![r].err = "NotFound"]
            /\ Raise(r, "NotFound")
       ELSE /\ video' = [video EXCEPT ![r].pc = "post"]
            /\ UNCHANGED stage
    /\ UNCHANGED <<runDoc, taskDoc, gcs, submitted, job, reqs, nreq, now, gen, web, http>>

\* requests.post, raise_for_status, job_data.get("jobId")
start_job(r, outcome) ==
    /\ video[r].pc = "post"
    /\ CASE outcome = "http_error" ->
              /\ video' = [video EXCEPT ![r].pc = "failed", ![r].err = "HTTPError",
                                        ![r].posts = @ + 1]
              /\ Raise(r, "HTTPError")
              /\ UNCHANGED job
         [] outcome = "no_job_id" ->
              /\ video' = [video EXCEPT ![r].pc = "failed", ![r].err = "ValueError_job_id",
                                        ![r].posts = @ + 1]
              /\ Raise(r, "ValueError")
              /\ UNCHANGED job
         [] outcome = "job_id" ->
              /\ video' = [video EXCEPT ![r].pc = "sleep", ![r].job_id = TRUE,
                                        ![r].posts = @ + 1]
              /\ job' = [job EXCEPT ![r] = [NoJob EXCEPT !.exists = TRUE]]
              /\ UNCHANGED stage
    /\ UNCHANGED <<runDoc, taskDoc, gcs, submitted, reqs, nreq, now, gen, web, http>>

\* the seconds of one time.sleep of the component's poll loop
PollInterval == 60

\* time.sleep(60)
poll_sleep(r) ==
    /\ video[r].pc = "sleep"
    /\ video' = [video EXCEPT ![r].pc = "get", ![r].sleeps = @ + 1,
                              ![r].slept = @ + PollInterval]
    /\ UNCHANGED <<runDoc, taskDoc, gcs, submitted, stage, job, reqs, nreq, now, gen, web, http>>

\* requests.get(job_status_endpoint), raise_for_status, the loop test
poll_status(r, http_ok, answer) ==
    /\ video[r].pc = "get"
    /\ video[r].polls < MaxPolls
    /\ IF ~http_ok
       THEN /\ video' = [video EXCEPT ![r].pc = "failed", ![r].err = "HTTPError",
                                      ![r].polls = @ + 1]
            /\ Raise(r, "HTTPError")
            /\ UNCHANGED job
       ELSE LET a == status_data(answer) IN
            /\ answer \in JobMayAnswer(job[r])
            /\ job' = [job EXCEPT ![r] = JobAfter(@, answer)]
            /\ video' = [video EXCEPT
                   ![r].polls = @ + 1,
                   ![r].status = a.status,
                   ![r].video_url = IF a.status = "SUCCEEDED" THEN a.outputUrl ELSE @,
                   ![r].pc = IF PollAgain(a.status) THEN "sleep" ELSE "after_loop"]
            /\ UNCHANGED stage
    /\ UNCHANGED <<runDoc, taskDoc, gcs, submitted, reqs, nreq, now, gen, web, http>>

after_loop(r) ==
    /\ video[r].pc = "after_loop"
    /\ IF JobFailed(video[r].status, video[r].video_url)
       THEN /\ video' = [video EXCEPT ![r].pc = "failed", ![r].err = "RuntimeError_job"]
            /\ Raise(r, "RuntimeError")
       ELSE /\ video' = [video EXCEPT ![r].pc = "download"]
            /\ UNCHANGED stage
    /\ UNCHANGED <<runDoc, taskDoc, gcs, submitted, job, reqs, nreq, now, gen, web, http>>

download_to_gcs_from_url(r, http_ok) ==
    /\ video[r].pc = "download"
    /\ IF http_ok
       THEN /\ video' = [video EXCEPT ![r].pc = "done", ![r].fetches = @ + 1]
            /\ gcs' = Upload(video_output_path(r))
            /\ stage' = [stage EXCEPT ![r]["video"] = "SUCCEEDED"]
       ELSE /\ video' = [video EXCEPT ![r].pc = "failed", ![r].err = "HTTPError",
                                      ![r].fetches = @ + 1]
            /\ Raise(r, "HTTPError")
            /\ UNCHANGED gcs
    /\ UNCHANGED <<runDoc, taskDoc, submitted, job, reqs, nreq, now, gen, web, http>>

(***************************************************************************)
(* The system.                                                             *)
(***************************************************************************)
(***************************************************************************)
(* The functions that call the generative model: extract_usp_emotion,       *)
(* analyze_brand_style and generate_ad_brief of the pipeline components,    *)
(* each run by its main_handler, and get_ai_analysis and generate_ad_brief  *)
(* of the web application.  A reply of the model is a text or an exception; *)
(* an exception's message is the set of the markers the code looks for.     *)
(***************************************************************************)
Components == {"usp_extraction", "brand_style_analysis", "ad_brief_generator"}
AppFunctions == {"get_ai_analysis", "generate_ad_brief"}
GenFunctions == Components \cup AppFunctions

\* response.text: JSON, JSON inside a ```json fence, or other text
Texts == {"json", "fenced", "text"}

Messages ==
    {{"404", "Publisher Model"}, {"403", "PERMISSION_DENIED"}, {"PERMISSION_DENIED"},
     {"401", "UNAUTHENTICATED"}, {"404", "Publisher Model", "PERMISSION_DENIED"},
     {"503"}, {"404"}, {"UNAUTHENTICATED"}, {"403", "401"},
     {"Publisher Model", "UNAUTHENTICATED"}}

\* type(e).__name__ of the exceptions generate_content raises
ExcTypes == {"ClientError", "ServerError"}

\* removal of the markdown fence, by the functions that do it
StripFence(text) == IF text = "fenced" THEN "json" ELSE text

Cleaned(fn, text) ==
    IF fn \in AppFunctions \cup {"ad_brief_generator"} THEN StripFence(text)
                                                      ELSE text

\* json.loads raises JSONDecodeError on anything but JSON
json_loads_ok(text) == text = "json"

\* the except clause for JSONDecodeError of the web application's functions
json_parse_error(text) ==
    [error_type |-> "JSON_PARSE_ERROR", full_error |-> {}, raw_response |-> text,
     suggestion |-> TRUE]

\* a faulty variant: the upstream error text is left out of the error value
error_details_NoFullError(cls, msg) ==
    [error_type |-> IF "403" \in msg THEN "PERMISSION_DENIED" ELSE "AUTHENTICATION_ERROR",
     full_error |-> {}, raw_response |-> "", suggestion |-> TRUE]

\* the except clause for Exception of get_ai_analysis
error_details(cls, msg) ==
    [error_type |->
         IF "404" \in msg /\ "Publisher Model" \in msg THEN "MODEL_NOT_FOUND"
         ELSE IF "403" \in msg \/ "PERMISSION_DENIED" \in msg THEN "PERMISSION_DENIED"
         ELSE IF "401" \in msg \/ "UNAUTHENTICATED" \in msg THEN "AUTHENTICATION_ERROR"
         ELSE cls,
     full_error |-> msg, raw_response |-> "", suggestion |-> TRUE]

\* a faulty variant: the test for 401 comes before the test for 403
ad_brief_error_details_AuthFirst(cls, msg) ==
    [error_type |->
         IF "404" \in msg /\ "Publisher Model" \in msg THEN "MODEL_NOT_FOUND"
         ELSE IF "401" \in msg \/ "UNAUTHENTICATED" \in msg THEN "AUTHENTICATION_ERROR"
         ELSE IF "403" \in msg \/ "PERMISSION_DENIED" \in msg THEN "PERMISSION_DENIED"
         ELSE cls,
     full_error |-> msg, raw_response |-> "", suggestion |-> TRUE]

\* the except clause for Exception of generate_ad_brief
ad_brief_error_details(cls, msg) ==
    [error_type |->
         IF "404" \in msg /\ "Publisher Model" \in msg THEN "MODEL_NOT_FOUND"
         ELSE IF "403" \in msg \/ "PERMISSION_DENIED" \in msg THEN "PERMISSION_DENIED"
         ELSE IF "401" \in msg \/ "UNAUTHENTICATED" \in msg THEN "AUTHENTICATION_ERROR"
         ELSE cls,
     full_error |-> msg, raw_response |-> "", suggestion |-> TRUE]

\* a function is entered: by main_handler for a component, by a route for
\* the web application
invoke(fn) ==
    /\ gen.pc \in {"idle", "done"}
    /\ gen' = [IdleGen EXCEPT !.fn = fn, !.pc = "call", !.blob = gen.blob]
    /\ UNCHANGED <<pipeline_vars, web>>

\* generate_content answers with a text or raises
generate_content(text, cls, msg) ==
    /\ gen.pc = "call"
    /\ (text = "") # (msg = {})
    /\ (cls = "") <=> (msg = {})
    /\ gen' = [gen EXCEPT !.calls = @ + 1, !.text = text, !.exc = msg,
                          !.exc_type = cls,
                          !.pc = IF text # "" THEN "parse" ELSE "except"]
    /\ UNCHANGED <<pipeline_vars, web>>

\* json.loads of the reply; a component falls back to substitute content,
\* writes its output and answers 200
parse_response ==
    /\ gen.pc = "parse"
    /\ LET ok == json_loads_ok(Cleaned(gen.fn, gen.text)) IN
       gen' = IF gen.fn \in Components
              THEN [gen EXCEPT !.result = IF ok THEN "parsed" ELSE "fallback",
                               !.wrote = TRUE,
                               !.blob = IF ok THEN "parsed" ELSE "fallback",
                               !.answer = 200,
                               !.pc = "done"]
              ELSE [gen EXCEPT !.result = IF ok THEN "parsed" ELSE "error",
                               !.error = IF ok THEN NoError
                                               ELSE json_parse_error(gen.text),
                               !.pc = "done"]
    /\ UNCHANGED <<pipeline_vars, web>>

\* the exception of generate_content reaches main_handler's except clause
\* (500) in a component, and the function's own in the web application
handle_exception ==
    /\ gen.pc = "except"
    /\ gen' = IF gen.fn \in Components
              THEN [gen EXCEPT !.result = "error", !.answer = 500, !.pc = "done"]
              ELSE [gen EXCEPT !.result = "error",
                               !.error = IF gen.fn = "get_ai_analysis"
                                         THEN error_details(gen.exc_type, gen.exc)
                                         ELSE ad_brief_error_details(gen.exc_type,
                                                                     gen.exc),
                               !.pc = "done"]
    /\ UNCHANGED <<pipeline_vars, web>>

GenNext ==
    \/ \E fn \in GenFunctions : invoke(fn)
    \/ \E text \in Texts \cup {""}, cls \in ExcTypes \cup {""},
          msg \in Messages \cup {{}} :
          generate_content(text, cls, msg)
    \/ parse_response
    \/ handle_exception

GenSpec == Init /\ [][GenNext]_vars

Next ==
    \/ \E r \in Runs, u \in Users, valid \in BOOLEAN, ok \in BOOLEAN :
          now < MaxClock /\ initiate_hitl_task(r, u, valid, ok)
    \/ \E r \in Runs : open_task(r)
    \/ \E r \in Runs, t \in TaskNames, by \in Approvers :
          nreq < MaxRequests /\ task_details_read(r, t, by)
    \/ \E q \in reqs : now < MaxClock /\ task_details_commit(q)
    \/ \E q \in reqs, ok \in BOOLEAN : task_details_prompt(q, ok)
    \/ \E q \in reqs : create_gate_file(q)
    \/ \E r \in Runs : run_adapt_pipeline(r)
    \/ \E r \in Runs, s \in Stages : StartTask(r, s)
    \/ \E r \in Runs, s \in Stages, code \in StatusCodes : main_handler(r, s, code)
    \/ \E r \in Runs, s \in Stages : WaitGcpResourcesOp(r, s)
    \/ \E r \in Runs, k \in BOOLEAN : video_main(r, k)
    \/ \E r \in Runs, o \in {"http_error", "no_job_id", "job_id"} : start_job(r, o)
    \/ \E r \in Runs : poll_sleep(r)
    \/ \E r \in Runs, ok \in BOOLEAN, a \in Answers : poll_status(r, ok, a)
    \/ \E r \in Runs : after_loop(r)
    \/ \E r \in Runs, ok \in BOOLEAN : download_to_gcs_from_url(r, ok)

Spec == Init /\ [][Next]_vars

(***************************************************************************)
(* The ledger's HTTP handlers by themselves, with the request bodies of     *)
(* initiate_hitl_task and the answers given at once (400, 500, 201 and      *)
(* 404).  The source creates no Task but analysis_review.                   *)
(***************************************************************************)
LedgerNext ==
    \/ \E r \in Runs, u \in Users, body \in Bodies, ok \in BOOLEAN :
          now < MaxClock /\ initiate_hitl_task_http(r, u, body, ok)
    \/ \E r \in Runs, t \in TaskNames :
          nreq < MaxRequests /\ task_details_http(r, t, "alice")
    \/ \E q \in reqs : now < MaxClock /\ task_details_commit(q)
    \/ \E q \in reqs : create_gate_file(q)

LedgerSpec == Init /\ [][LedgerNext]_vars

(***************************************************************************)
(* The review UI over the tasks of every run: runs are created by well      *)
(* formed requests, tasks are resolved, and the list of pending tasks is    *)
(* asked for at any moment.                                                 *)
(***************************************************************************)
ReviewNext ==
    \/ \E r \in AllRuns, u \in Users :
          now < MaxClock /\ initiate_hitl_task_http(r, u, GivenBody, TRUE)
    \/ \E r \in AllRuns, t \in TaskNames :
          nreq < MaxRequests /\ task_details_http(r, t, "alice")
    \/ \E q \in reqs : now < MaxClock /\ task_details_commit(q)
    \/ \E q \in reqs : create_gate_file(q)
    \/ hitl_ui_index

ReviewSpec == Init /\ [][ReviewNext]_vars

(***************************************************************************)
(* Two runs side by side, each with its own pipeline job, ledger documents  *)
(* and review requests, in an environment where the requests are well       *)
(* formed, the external calls answer, the job ends well after at most       *)
(* TwoRunPolls polls, and the approver posts one approval for a task listed *)
(* as pending.  A stage handler may still answer 500.                       *)
(***************************************************************************)
TwoRunClock == Cardinality(AllRuns) * MaxClock
TwoRunRequests == Cardinality(AllRuns) * MaxRequests
TwoRunPolls == 2

\* the task is on the list of pending tasks and nobody is approving it
ListedPending(r, t) ==
    /\ taskDoc[r][t].status = "PENDING"
    /\ \A q \in reqs : ~(q.run = r /\ q.task = t)

TwoRunNext ==
    \/ \E r \in AllRuns, u \in Users :
          /\ runDoc[r].status = "ABSENT"
          /\ now < TwoRunClock
          /\ initiate_hitl_task(r, u, TRUE, TRUE)
    \/ \E r \in AllRuns : open_task(r)
    \/ \E r \in AllRuns, t \in TaskNames :
          /\ ListedPending(r, t)
          /\ nreq < TwoRunRequests
          /\ task_details_read(r, t, "alice")
    \/ \E q \in reqs : now < TwoRunClock /\ task_details_commit(q)
    \/ \E q \in reqs : task_details_prompt(q, TRUE)
    \/ \E q \in reqs : create_gate_file(q)
    \/ \E r \in AllRuns : run_adapt_pipeline(r)
    \/ \E r \in AllRuns, s \in Stages : StartTask(r, s)
    \/ \E r \in AllRuns, s \in Stages, code \in {200, 500} : main_handler(r, s, code)
    \/ \E r \in AllRuns, s \in Stages : WaitGcpResourcesOp(r, s)
    \/ \E r \in AllRuns : video_main(r, TRUE)
    \/ \E r \in AllRuns : start_job(r, "job_id")
    \/ \E r \in AllRuns : poll_sleep(r)
    \/ \E r \in AllRuns, a \in {"RUNNING", "SUCCEEDED"} :
          /\ video[r].polls < TwoRunPolls
          /\ a = "RUNNING" => video[r].polls + 1 < TwoRunPolls
          /\ poll_status(r, TRUE, a)
    \/ \E r \in AllRuns : after_loop(r)
    \/ \E r \in AllRuns : download_to_gcs_from_url(r, TRUE)

TwoRunSpec == Init /\ [][TwoRunNext]_vars

(***************************************************************************)
(* The web application (app.py): the routes of one browser session.  A      *)
(* request is handled in one step.  The session keeps, for analysis_data    *)
(* and ad_brief, the number of the analysis version held: / stores a new    *)
(* analysis, /generate-brief stores the analysis as the form refined it.    *)
(***************************************************************************)
MaxVersions == 3
MaxGets == 2        \* not-done answers of one video operation

\* the values a duration field of the approval form may carry: int() takes
\* any integer
Durations == {-1, 0, 2}

Answer(route, response, called) ==
    [route |-> route, response |-> response, called |-> called]

\* POST /: get_ai_analysis returns an error value, a result without usps,
\* or an analysis
index(analysis) ==
    /\ web.versions < MaxVersions
    /\ web' = IF analysis = "ok"
              THEN [web EXCEPT !.analysis_data = web.versions + 1,
                               !.versions = @ + 1,
                               !.last = Answer("index", "redirect_analysis_review", "model")]
              ELSE [web EXCEPT !.last = Answer("index", "render_error", "model")]
    /\ UNCHANGED <<pipeline_vars, gen>>

\* GET /analysis-review
analysis_review ==
    /\ web' = [web EXCEPT !.last =
                   IF web.analysis_data = 0
                   THEN Answer("analysis_review", "redirect_index", "none")
                   ELSE Answer("analysis_review", "render", "none")]
    /\ UNCHANGED <<pipeline_vars, gen>>

\* a faulty variant: POST /generate-brief does not test its result for "error"
generate_brief_route_NoErrorTest(brief) ==
    /\ IF web.analysis_data = 0
       THEN web' = [web EXCEPT !.last =
                        Answer("generate_brief_route", "redirect_index", "none")]
       ELSE /\ web.versions < MaxVersions
            /\ web' = [web EXCEPT !.analysis_data = web.versions + 1,
                                  !.versions = @ + 1,
                                  !.ad_brief = web.versions + 1,
                                  !.last = Answer("generate_brief_route",
                                                  "redirect_approval", "model")]
    /\ UNCHANGED <<pipeline_vars, gen>>

\* POST /generate-brief: the refined analysis replaces analysis_data before
\* generate_ad_brief is called
generate_brief_route(brief) ==
    /\ IF web.analysis_data = 0
       THEN web' = [web EXCEPT !.last =
                        Answer("generate_brief_route", "redirect_index", "none")]
       ELSE /\ web.versions < MaxVersions
            /\ web' = IF brief = "ok"
                      THEN [web EXCEPT !.analysis_data = web.versions + 1,
                                       !.versions = @ + 1,
                                       !.ad_brief = web.versions + 1,
                                       !.last = Answer("generate_brief_route",
                                                       "redirect_approval", "model")]
                      ELSE [web EXCEPT !.analysis_data = web.versions + 1,
                                       !.versions = @ + 1,
                                       !.last = Answer("generate_brief_route",
                                                       "render_error", "model")]
    /\ UNCHANGED <<pipeline_vars, gen>>

\* GET /approval
approval_get ==
    /\ web' = [web EXCEPT !.last =
                   IF web.ad_brief = 0
                   THEN Answer("approval", "redirect_index", "none")
                   ELSE Answer("approval", "render", "none")]
    /\ UNCHANGED <<pipeline_vars, gen>>

\* generate_video: durationSeconds is the sum of the scenes' durations; the
\* result is a success or an error value
duration_seconds(script) ==
    IF Len(script) = 0 THEN 0 ELSE script[1] + (IF Len(script) > 1 THEN script[2] ELSE 0)

\* the seconds of one time.sleep of the web application's poll loop
WebPollInterval == 10

\* the operation as generate_videos returns it (answers[1]) and as each
\* operations.get returns it after that: n times not done, then done or an
\* exception
OperationAnswers(n, last) ==
    [i \in 1..(n + 1) |-> IF i <= n THEN "running" ELSE last]

RECURSIVE poll_until_done_NoSleep(_, _, _)
\* a faulty variant: the loop asks again without sleeping
poll_until_done_NoSleep(answers, i, p) ==
    IF answers[i] # "running"
    THEN [p EXCEPT !.outcome = answers[i]]
    ELSE poll_until_done_NoSleep(answers, i + 1, [p EXCEPT !.gets = @ + 1])

RECURSIVE poll_until_done(_, _, _)
\* while not operation.done: time.sleep(10); operation = operations.get(...)
\* with the operation held being answers[i]
poll_until_done(answers, i, p) ==
    IF answers[i] # "running"
    THEN [p EXCEPT !.outcome = answers[i]]
    ELSE poll_until_done(answers, i + 1,
                         [p EXCEPT !.sleeps = @ + 1,
                                   !.slept = @ + WebPollInterval,
                                   !.gets = @ + 1])

\* generate_video of the web application: generate_videos, the poll loop,
\* video.save; any exception gives the error value
generate_video(answers, saved) ==
    IF answers[1] = "raise"
    THEN [status |-> "error", poll |-> [NoPoll EXCEPT !.outcome = "raise"]]
    ELSE LET p == poll_until_done(answers, 1,
                                  [NoPoll EXCEPT !.submitted = TRUE,
                                                 !.first = answers[1]]) IN
         [status |-> IF p.outcome = "done" /\ saved THEN "success" ELSE "error",
          poll |-> p]

\* a faulty variant: POST /approval does not look for ad_brief in the session
approval_NoGuard(d1, d2, answers, saved) ==
    /\ web' = [web EXCEPT !.final_brief =
                              [brief_of |-> web.ad_brief,
                               style_of |-> web.analysis_data,
                               script |-> <<d1, d2>>],
                          !.durationSeconds = duration_seconds(<<d1, d2>>),
                          !.video_result = generate_video(answers, saved).status,
                          !.poll = generate_video(answers, saved).poll,
                          !.last = Answer("approval", "redirect_result", "video")]
    /\ UNCHANGED <<pipeline_vars, gen>>

\* POST /approval: final_brief has the two scenes of the form, with
\* int(scene1_duration) and int(scene2_duration), and the style_analysis of
\* the session's analysis_data
approval(d1, d2, answers, saved) ==
    /\ IF web.ad_brief = 0
       THEN web' = [web EXCEPT !.last = Answer("approval", "redirect_index", "none")]
       ELSE web' = [web EXCEPT !.final_brief =
                                   [brief_of |-> web.ad_brief,
                                    style_of |-> web.analysis_data,
                                    script |-> <<d1, d2>>],
                               !.durationSeconds = duration_seconds(<<d1, d2>>),
                               !.video_result = generate_video(answers, saved).status,
                               !.poll = generate_video(answers, saved).poll,
                               !.last = Answer("approval", "redirect_result", "video")]
    /\ UNCHANGED <<pipeline_vars, gen>>

\* GET /result
result ==
    /\ web' = [web EXCEPT !.last =
                   IF web.video_result = ""
                   THEN Answer("result", "redirect_index", "none")
                   ELSE Answer("result", "render", "none")]
    /\ UNCHANGED <<pipeline_vars, gen>>

WebNext ==
    \/ \E a \in {"ok", "error", "no_usps"} : index(a)
    \/ analysis_review
    \/ \E b \in {"ok", "error"} : generate_brief_route(b)
    \/ approval_get
    \/ \E d1 \in Durations, d2 \in Durations, n \in 0..MaxGets,
          last \in {"done", "raise"}, saved \in BOOLEAN :
          approval(d1, d2, OperationAnswers(n, last), saved)
    \/ result

WebSpec == Init /\ [][WebNext]_vars

(***************************************************************************)
(* The same two runs with the source alone: the repository writes no Task   *)
(* document other than analysis_review, so no step gives a run a Task for   *)
(* its second gate.                                                         *)
(***************************************************************************)
SourceNext ==
    /\ TwoRunNext
    /\ \A r \in AllRuns : taskDoc'[r][T2].status = "ABSENT"

SourceSpec == Init /\ [][SourceNext]_vars

(***************************************************************************)
(* Claims.                                                                 *)
(***************************************************************************)
Terminal == {"SUCCEEDED", "FAILED"}

RunStatusSteps ==
    {<<"ABSENT", "PENDING_APPROVAL">>, <<"PENDING_APPROVAL", "RUNNING">>,
     <<"RUNNING", "SUCCEEDED">>, <<"RUNNING", "FAILED">>}

\* a stage behind the first approval gate is executing
Executing(r) == stage[r]["brief"] = "RUNNING" \/ stage[r]["video"] = "RUNNING"

\* C1: the status of a Run moves only along PENDING_APPROVAL -> RUNNING ->
\* SUCCEEDED or FAILED, and a Run does not stay PENDING_APPROVAL while its
\* stages execute.
C1_RunStatusPath ==
    [][\A r \in Runs :
          /\ runDoc'[r].status # runDoc[r].status
                => <<runDoc[r].status, runDoc'[r].status>> \in RunStatusSteps
          /\ (runDoc'[r].status # "ABSENT" /\ Executing(r)')
                => runDoc'[r].status = "RUNNING"]_vars

\* C2: once a Task is COMPLETED, a further resolve leaves its status,
\* approvedBy, approvedAt and outputs as the first resolve wrote them.
C2_SecondResolveChangesNothing ==
    [][\A r \in Runs, t \in TaskNames :
          (taskDoc[r][t].status = "COMPLETED" /\ taskDoc'[r][t].status = "COMPLETED")
             => taskDoc'[r][t] = taskDoc[r][t]]_vars

AnalysesDone(r) == stage[r]["usp"] = "SUCCEEDED" /\ stage[r]["style"] = "SUCCEEDED"

\* C3: the wait on approval gate 1 and the opening of its Task happen only
\* after both analysis stages have finished; if one of them fails the gate is
\* never opened.
C3_GateOneAfterAnalyses ==
    \A r \in Runs :
        (stage[r]["hitl_1"] # "NOT_STARTED" \/ taskDoc[r][T1].status # "ABSENT")
            => AnalysesDone(r)

\* The pipeline's own part of C3: the wait task starts only after both
\* analysis tasks succeeded.
WaitOneAfterAnalyses ==
    \A r \in Runs : stage[r]["hitl_1"] # "NOT_STARTED" => AnalysesDone(r)

\* C4: the synthesis stage does not start before the gate-1 signal exists,
\* and while the gate-1 Task is PENDING it is not running and has written no
\* artifact.
C4_BriefAfterGateOne ==
    \A r \in Runs :
        /\ stage[r]["brief"] # "NOT_STARTED" => Exists(approval_gate_1_uri(r))
        /\ taskDoc[r][T1].status = "PENDING"
              => /\ stage[r]["brief"] = "NOT_STARTED"
                 /\ ~Exists(brief_output_path(r))

\* The pipeline's own part of C4.
BriefAfterGateFile ==
    \A r \in Runs :
        stage[r]["brief"] # "NOT_STARTED" => Exists(approval_gate_1_uri(r))

C6_GateSignalImpliesCompleted ==
    \A r \in Runs, t \in TaskNames :
        (taskDoc[r][t].status # "ABSENT" /\ Exists(taskDoc[r][t].gateFileUri))
            => taskDoc[r][t].status = "COMPLETED"

\* C7: a Task has outputs only once it is COMPLETED, and every output URI
\* recorded in a Task names an artifact that has been written.
C7_OutputsAreWritten ==
    \A r \in Runs, t \in TaskNames :
        /\ taskDoc[r][t].outputs # {} => taskDoc[r][t].status = "COMPLETED"
        /\ \A u \in taskDoc[r][t].outputs : Exists(u)

\* C8: when the submission answer carries no jobId the stage fails before
\* any status poll, the Run becomes FAILED and no video artifact is written.
C8_NoJobIdFailsRun ==
    \A r \in Runs :
        video[r].err = "ValueError_job_id"
            => /\ video[r].polls = 0
               /\ ~Exists(video_output_path(r))
               /\ runDoc[r].status = "FAILED"

\* The stage's own part of C8.
NoJobIdNoPollNoArtifact ==
    \A r \in Runs :
        video[r].err = "ValueError_job_id"
            => /\ video[r].polls = 0 /\ video[r].sleeps = 0
               /\ ~Exists(video_output_path(r))
               /\ stage[r]["video"] = "FAILED"

\* C9: when the job gives n non-terminal answers and then SUCCEEDED with an
\* outputUrl, the stage has made exactly n+1 status polls, then makes one
\* payload fetch and, the payload delivered, one upload to its output URI; it
\* fetches and uploads nothing before the SUCCEEDED answer.
C9_PollsThenOneArtifact ==
    \A r \in Runs :
        LET v == video[r]
            j == job[r]
            out == gcs[video_output_path(r)] IN
        /\ v.status # "SUCCEEDED" => (v.fetches = 0 /\ out = 0)
        /\ (v.status = "SUCCEEDED" /\ j.final = "SUCCEEDED")
              => /\ v.polls = j.nonterminal + 1
                 /\ j.terminal = 1
                 /\ v.fetches <= 1
                 /\ out = (IF v.pc = "done" THEN 1 ELSE 0)
                 /\ v.pc \in {"after_loop", "download", "done", "failed"}
                 /\ v.pc = "failed" => (v.fetches = 1 /\ v.err = "HTTPError")
                 /\ v.pc = "done" => v.fetches = 1

\* the spec's case: five non-terminal answers, then SUCCEEDED with a URL
C9_Witness ==
    \E r \in Runs :
        /\ video[r].pc = "done"
        /\ job[r].nonterminal = 5
        /\ video[r].polls = 6
        /\ gcs[video_output_path(r)] = 1

\* C10: after an answered poll the loop goes on exactly when the status is
\* neither SUCCEEDED nor FAILED (a missing status included); FAILED, or
\* SUCCEEDED without an outputUrl, ends the stage with the job-failed error
\* of that job and no artifact; only SUCCEEDED with an outputUrl yields the
\* output reference.
C10_LoopStopsOnTerminalOnly ==
    \A r \in Runs :
        LET v == video[r]
            j == job[r]
            left == v.pc \in {"after_loop", "download", "done"}
                       \/ (v.pc = "failed" /\ v.err # "HTTPError")
            answered == j.nonterminal + j.terminal IN
        v.job_id =>
          /\ j.terminal <= 1
          /\ (answered > 0 /\ v.err # "HTTPError") =>
                (left <=> v.status \in Terminal)
          /\ (answered > 0 /\ v.status \notin Terminal /\ v.pc # "failed") =>
                v.pc \in {"sleep", "get"}
          /\ j.final \in {"FAILED", "SUCCEEDED_NO_URL"} =>
                /\ v.pc \in {"after_loop", "failed"}
                /\ ~Exists(video_output_path(r))
                /\ v.pc = "failed" => v.err = "RuntimeError_job"
          /\ v.err = "RuntimeError_job" =>
                /\ j.final \in {"FAILED", "SUCCEEDED_NO_URL"}
                /\ ~Exists(video_output_path(r))
          /\ v.pc \in {"download", "done"} =>
                (v.status = "SUCCEEDED" /\ v.video_url /\ j.final = "SUCCEEDED")

\* SUCCEEDED without an outputUrl, after at least one non-terminal answer,
\* ends in the job-failed error
C10_Witness ==
    \E r \in Runs :
        /\ video[r].err = "RuntimeError_job"
        /\ video[r].status = "SUCCEEDED"
        /\ job[r].nonterminal >= 1

\* status requests of the video stage that raised instead of answering
FailedPolls(r) == video[r].polls - (job[r].nonterminal + job[r].terminal)

\* the stage ended because a status request raised
EndedByPollFailure(r) ==
    /\ video[r].pc = "failed"
    /\ video[r].err = "HTTPError"
    /\ video[r].job_id
    /\ video[r].fetches = 0

\* C11: one invocation of the video stage sends the start request at most
\* once, exactly once when it gets as far as polling; no poll makes a new
\* submission, and after a terminal answer there is no further poll or
\* submission.
C11_OneJobPerInvocation ==
    \A r \in Runs :
        LET v == video[r]
            j == job[r] IN
        /\ v.posts <= 1
        /\ v.pc \in {"sleep", "get", "after_loop", "download", "done"} => v.posts = 1
        /\ j.exists => (v.posts = 1 /\ v.job_id)
        /\ j.terminal <= 1
        /\ v.status \in Terminal => v.pc \notin {"main", "post", "sleep", "get"}
        /\ v.polls > 0 => v.pc # "post"

\* a job that was polled several times and ended, with one start request
C11_Witness ==
    \E r \in Runs :
        /\ video[r].pc = "done"
        /\ video[r].posts = 1
        /\ video[r].polls >= 3
        /\ job[r].terminal = 1

\* C12: one failed status poll does not end the stage; the stage fails on
\* poll failures only after more than one of them.
C12_FailedPollIsRetried ==
    \A r \in Runs : EndedByPollFailure(r) => FailedPolls(r) >= 2

\* C13: the poll loop ends within a bounded number of polls, whatever the
\* job answers; the bound taken here is MaxPolls.
C13_PollLoopEnds ==
    \A r \in Runs :
        video[r].polls >= MaxPolls
            => video[r].pc \in {"after_loop", "download", "done", "failed"}

\* the stages the pipeline runs only after stage s
Downstream(s) ==
    CASE s = "usp" -> {"hitl_1", "brief", "hitl_2", "video"}
      [] s = "style" -> {"hitl_1", "brief", "hitl_2", "video"}
      [] s = "hitl_1" -> {"brief", "hitl_2", "video"}
      [] s = "brief" -> {"hitl_2", "video"}
      [] s = "hitl_2" -> {"video"}
      [] s = "video" -> {}

\* the pipeline's part of C14: nothing downstream of a failed stage runs
NothingAfterFailedStage ==
    \A r \in Runs : \A s \in Stages :
        stage[r][s] = "FAILED"
            => \A d \in Downstream(s) : stage[r][d] = "NOT_STARTED"

\* the pipeline's part of C14: a failed stage stays failed
FailedStageStaysFailed ==
    [][\A r \in Runs : \A s \in Stages :
          stage[r][s] = "FAILED" => stage'[r][s] = "FAILED"]_vars

\* C14: once a stage of a run has failed, the Run document of that run has
\* status FAILED and no stage after the failed one has been invoked.
C14_StageFailureFailsRun ==
    \A r \in Runs : \A s \in Stages :
        (stage[r][s] = "FAILED" /\ runDoc[r].status # "ABSENT")
            => /\ runDoc[r].status = "FAILED"
               /\ \A d \in Downstream(s) : stage[r][d] = "NOT_STARTED"

\* C15: when the video stage has succeeded the Run document carries the
\* video's URI as finalVideoPath and status SUCCEEDED, and in every state
\* finalVideoPath is set exactly when the status is SUCCEEDED.
C15_FinalArtifactIffSucceeded ==
    \A r \in Runs :
        /\ (stage[r]["video"] = "SUCCEEDED" /\ runDoc[r].status # "ABSENT")
               => /\ runDoc[r].finalVideoPath = video_output_path(r)
                  /\ runDoc[r].status = "SUCCEEDED"
        /\ runDoc[r].finalVideoPath # NoUri <=> runDoc[r].status = "SUCCEEDED"

\* the second half of C15 alone: it holds because neither side is ever true
FinalVideoPathOnlyWhenSucceeded ==
    \A r \in Runs :
        runDoc[r].finalVideoPath # NoUri <=> runDoc[r].status = "SUCCEEDED"

\* the run exists and its pipeline is under way or over: no code advances
\* the status field of the Run document, so the pipeline's own state says it
RunningOrTerminal(r) ==
    /\ runDoc[r].status # "ABSENT"
    /\ r \in submitted
    /\ \E s \in Stages : stage[r][s] # "NOT_STARTED"

\* the part of C16 the pipeline keeps: a stage that ended never runs again
CompletedStageNotRunAgain ==
    [][\A r \in Runs : \A s \in Stages :
          stage[r][s] \in {"SUCCEEDED", "FAILED"} => stage'[r][s] = stage[r][s]]_vars

\* C16: creating a run again under the id of a Run that is already running
\* or over changes neither the creation data and final artifact of the Run
\* document nor the creation data of its Task documents, and runs no
\* completed stage again.
C16_RecreateRunningRunIsNoOp ==
    [][\A r \in Runs :
          RunningOrTerminal(r)
              => /\ runDoc'[r].createdAt = runDoc[r].createdAt
                 /\ runDoc'[r].createdBy = runDoc[r].createdBy
                 /\ runDoc'[r].finalVideoPath = runDoc[r].finalVideoPath
                 /\ \A t \in TaskNames :
                        /\ taskDoc'[r][t].createdAt = taskDoc[r][t].createdAt
                        /\ taskDoc'[r][t].inputs = taskDoc[r][t].inputs
                 /\ \A s \in Stages :
                        stage[r][s] \in {"SUCCEEDED", "FAILED"}
                            => stage'[r][s] = stage[r][s]]_vars

\* a step that opens task t of run r: the only writer of createdAt
Opens(r, t) ==
    /\ taskDoc'[r][t].status = "PENDING"
    /\ taskDoc'[r][t].createdAt = now'
    /\ now' # now

\* C17: opening a Task that exists leaves the stored Task as it was when it
\* is PENDING, and when it is not PENDING does not reset its status,
\* approvedBy, approvedAt or outputs.
C17_OpenExistingTaskKeepsIt ==
    [][\A r \in Runs : \A t \in TaskNames :
          (taskDoc[r][t].status # "ABSENT" /\ Opens(r, t))
              => taskDoc'[r][t] = taskDoc[r][t]]_vars

\* C18: the handler of usp_extraction, brand_style_analysis and
\* ad_brief_generator has written its output once when it succeeded, and
\* not at all when it has not run or has answered 400 or 500.
C18_OneWriteOnSuccessOnly ==
    \A r \in Runs : \A s \in {"usp", "style", "brief"} :
        gcs[StageOutput(r, s)] = IF stage[r][s] = "SUCCEEDED" THEN 1 ELSE 0

\* one handler succeeded and wrote, another failed and wrote nothing
C18_Witness ==
    \E r \in Runs : \E s, f \in {"usp", "style", "brief"} :
        /\ stage[r][s] = "SUCCEEDED" /\ gcs[StageOutput(r, s)] = 1
        /\ stage[r][f] = "FAILED" /\ gcs[StageOutput(r, f)] = 0

C20_NoUriWrittenTwice ==
    \A u \in Uris : gcs[u] <= 1

\* the stage outputs' part of C20: each stage writes its own path, once
StageOutputsWrittenOnce ==
    \A r \in Runs :
        \A u \in {usp_output_path(r), style_output_path(r),
                  brief_output_path(r), video_output_path(r)} : gcs[u] <= 1

\* C21: an invocation whose generative call returned text that is not JSON
\* ends in an error: it does not answer success and has written no output.
C21_MalformedReplyIsAnError ==
    (gen.pc = "done" /\ gen.text = "text")
        => /\ gen.result = "error"
           /\ gen.answer # 200
           /\ ~gen.wrote

\* the web application's part of C21: its two functions return an error
\* value that carries the raw reply
AppMalformedReplyIsAnError ==
    (gen.pc = "done" /\ gen.text = "text" /\ gen.fn \in AppFunctions)
        => /\ gen.result = "error"
           /\ gen.error.error_type = "JSON_PARSE_ERROR"
           /\ gen.error.raw_response = gen.text

\* the message of a credential or permission failure
AuthFailure(msg) ==
    msg \cap {"401", "UNAUTHENTICATED", "403", "PERMISSION_DENIED"} # {}

\* C22: get_ai_analysis and generate_ad_brief of the web application make
\* one model call per invocation, and on a credential or permission failure
\* return an error value with an error type, the whole upstream error text
\* and a suggestion.
C22_AuthFailureReturnedOnce ==
    (gen.fn \in AppFunctions /\ gen.pc = "done")
        => /\ gen.calls = 1
           /\ AuthFailure(gen.exc)
                  => /\ gen.result = "error"
                     /\ gen.error.error_type # ""
                     /\ gen.error.full_error = gen.exc
                     /\ gen.error.suggestion
                     /\ "404" \notin gen.exc
                            => gen.error.error_type
                                   \in {"PERMISSION_DENIED", "AUTHENTICATION_ERROR"}

\* get_ai_analysis has returned the error value of a permission failure
C22_Witness ==
    /\ gen.fn = "get_ai_analysis"
    /\ gen.pc = "done"
    /\ gen.exc = {"403", "PERMISSION_DENIED"}
    /\ gen.error.error_type = "PERMISSION_DENIED"
    /\ gen.calls = 1

\* the Task of a gate and the artifacts the stages before it produce
GateTask(s) == IF s = "hitl_1" THEN T1 ELSE T2

GateInputs(r, s) ==
    IF s = "hitl_1" THEN {usp_output_path(r), style_output_path(r)}
                    ELSE {brief_output_path(r)}

\* C23: while the pipeline waits at a gate, the gate's Task exists in the
\* ledger, opened PENDING, with the artifacts of the stages before the gate as
\* its inputs; so analysis_review exists once both analyses are produced and
\* the wait has begun.
C23_WaitingGateHasTask ==
    \A r \in Runs : \A s \in {"hitl_1", "hitl_2"} :
        stage[r][s] = "RUNNING"
            => /\ taskDoc[r][GateTask(s)].status \in {"PENDING", "COMPLETED"}
               /\ taskDoc[r][GateTask(s)].inputs = GateInputs(r, s)

\* what the code does keep: a Task that exists names these inputs
ExistingTaskNamesGateInputs ==
    \A r \in Runs : \A s \in {"hitl_1", "hitl_2"} :
        taskDoc[r][GateTask(s)].status # "ABSENT"
            => taskDoc[r][GateTask(s)].inputs = GateInputs(r, s)

\* the runs whose review request takes this step (commit, prompt or gate
\* file)
ResolvingRuns == {q.run : q \in reqs \ reqs'}

\* a gate a run has passed is a gate whose Task of that run was resolved
PassedGateWasResolved ==
    \A b \in AllRuns : \A s \in {"hitl_1", "hitl_2"} :
        stage[b][s] = "SUCCEEDED" => taskDoc[b][GateTask(s)].status = "COMPLETED"

Concurrent(q1, q2) ==
    /\ q1 # q2
    /\ q1.run = q2.run
    /\ q1.task = q2.task

\* C25: of the resolve requests for one Task that are handled at the same
\* time only one gets past the commit, and the Task's gate signal is
\* written once.
C25_OneConcurrentResolveWins ==
    /\ \A q1, q2 \in reqs :
           Concurrent(q1, q2) => (q1.pc = "update" \/ q2.pc = "update")
    /\ \A r \in Runs : \A t \in TaskNames :
           taskDoc[r][t].status # "ABSENT" => gcs[taskDoc[r][t].gateFileUri] <= 1

\* what the single batch.update does give: the approval fields of a
\* COMPLETED task are those of one request, written at one time
ApprovalFieldsFromOneRequest ==
    [][\A r \in Runs : \A t \in TaskNames :
          taskDoc'[r][t].approvedAt # taskDoc[r][t].approvedAt
              => \/ /\ taskDoc'[r][t].status = "COMPLETED"
                    /\ taskDoc'[r][t].approvedAt = now'
                    /\ \E q \in reqs : /\ q.run = r /\ q.task = t /\ q.pc = "update"
                                       /\ taskDoc'[r][t].approvedBy = q.approved_by
                 \/ taskDoc'[r][t].status = "PENDING"]_vars

\* C26: the Run document and its analysis_review Task document exist
\* together or not at all; a Run document is created with status
\* PENDING_APPROVAL and at the same time as the Task; no Task is without its
\* Run.
C26_RunAndFirstTaskTogether ==
    \A r \in Runs :
        /\ runDoc[r].status = "ABSENT" <=> taskDoc[r][T1].status = "ABSENT"
        /\ runDoc[r].status # "ABSENT"
               => /\ runDoc[r].status = "PENDING_APPROVAL"
                  /\ taskDoc[r][T1].createdAt = runDoc[r].createdAt
        /\ \A t \in TaskNames :
               taskDoc[r][t].status # "ABSENT" => runDoc[r].status # "ABSENT"

\* a run was created: both documents are there, the Task PENDING
C26_Witness ==
    \E r \in Runs :
        /\ runDoc[r].status = "PENDING_APPROVAL"
        /\ taskDoc[r][T1].status = "PENDING"
        /\ taskDoc[r][T1].createdAt = runDoc[r].createdAt

\* C27: the brief the web application sends to video generation has two
\* scenes, each with duration_seconds > 0, and the video duration asked for
\* is positive.
C27_TwoScenesOfPositiveDuration ==
    web.final_brief # NoBrief
        => /\ Len(web.final_brief.script) = 2
           /\ \A i \in 1..Len(web.final_brief.script) : web.final_brief.script[i] > 0
           /\ web.durationSeconds > 0

\* the part of C27 the form handler does give: two scenes
FinalBriefHasTwoScenes ==
    web.final_brief # NoBrief => Len(web.final_brief.script) = 2

\* the approval fields of a Task document
ApprovalFields(d) == <<d.approvedBy, d.approvedAt, d.outputs>>

TaskFieldsAgree ==
    \A r \in Runs : \A t \in TaskNames :
        LET d == taskDoc[r][t] IN
        /\ d.status = "PENDING"
               => (d.outputs = {} /\ d.approvedBy = "None" /\ d.approvedAt = 0)
        /\ d.status = "COMPLETED" => (d.approvedAt > 0 /\ d.outputs # {})

\* C28: in every state a PENDING Task has empty outputs and null approvedBy
\* and approvedAt, and a COMPLETED Task has approvedAt set and outputs not
\* empty; a step that changes approvedBy, approvedAt or outputs is one
\* update that writes the status with them.
C28_TaskFieldsFollowStatus ==
    [][/\ TaskFieldsAgree'
       /\ \A r \in Runs : \A t \in TaskNames :
              ApprovalFields(taskDoc'[r][t]) # ApprovalFields(taskDoc[r][t])
                  => \/ /\ taskDoc'[r][t].status = "COMPLETED"
                        /\ taskDoc'[r][t].approvedAt = now'
                     \/ /\ taskDoc'[r][t].status = "PENDING"
                        /\ taskDoc[r][t].status = "COMPLETED"]_vars

\* the first task resolved and the second still pending
C28_Witness ==
    \E r \in Runs :
        /\ taskDoc[r][T1].status = "COMPLETED"
        /\ taskDoc[r][T1].approvedAt > 0
        /\ taskDoc[r][T1].outputs # {}
        /\ taskDoc[r][T2].status = "PENDING"
        /\ taskDoc[r][T2].outputs = {}

\* no request for task t of run r is being handled
NoRequestFor(r, t) == \A q \in reqs : ~(q.run = r /\ q.task = t)

\* C29: a Task that is COMPLETED has its gate signal written as soon as no
\* resolve request for it is still being handled: no step after the commit
\* can end the handler without the gate signal.
C29_CompletedTaskGetsGateSignal ==
    \A r \in Runs : \A t \in TaskNames :
        (taskDoc[r][t].status = "COMPLETED" /\ NoRequestFor(r, t))
            => Exists(taskDoc[r][t].gateFileUri)

\* the first gate's part of C29: nothing stands between its commit and its
\* gate file
FirstGateGetsGateSignal ==
    \A r \in Runs :
        (taskDoc[r][T1].status = "COMPLETED" /\ NoRequestFor(r, T1))
            => Exists(taskDoc[r][T1].gateFileUri)

\* the run is over: its video stage ended or one of its stages failed
RunOver(r) ==
    \/ stage[r]["video"] \in Terminal
    \/ \E s \in Stages : stage[r][s] = "FAILED"

\* C30: with well-behaved external calls and an approver who approves what is
\* listed as pending, a submitted run whose Run document exists is never
\* left, not over, in a state where nothing more can happen.
C30_SubmittedRunIsNeverStuck ==
    \A r \in AllRuns :
        (r \in submitted /\ runDoc[r].status # "ABSENT" /\ ~RunOver(r))
            => ENABLED SourceNext

\* the same with a Task opened for the second gate, as the spec has it
NeverStuckWithSecondTask ==
    \A r \in AllRuns :
        (r \in submitted /\ runDoc[r].status # "ABSENT" /\ ~RunOver(r))
            => ENABLED TwoRunNext

\* C31: the synthesis stage, once started behind a resolved gate-1 Task,
\* reads the artifacts named in that Task's outputs (the edited analyses)
\* and not the artifacts the analysis stages wrote.
C31_BriefReadsApprovedOutputs ==
    \A r \in Runs :
        (stage[r]["brief"] # "NOT_STARTED" /\ taskDoc[r][T1].status = "COMPLETED")
            => /\ StageInputs(r, "brief") = taskDoc[r][T1].outputs
               /\ StageInputs(r, "brief") \cap taskDoc[r][T1].inputs = {}

\* what the pipeline does: the synthesis stage reads what the Task names as
\* its inputs, the artifacts of the analysis stages
BriefReadsTaskInputs ==
    \A r \in Runs :
        taskDoc[r][T1].status # "ABSENT"
            => StageInputs(r, "brief") = taskDoc[r][T1].inputs

(***************************************************************************)
(* The two poll loops side by side: one pipeline run in which the stages    *)
(* before the video stage answer and the approver resolves what is listed   *)
(* as pending, the video stage of that run with every answer its job        *)
(* service may give, and one session of the web application that gets as    *)
(* far as generate_video.                                                   *)
(***************************************************************************)
PollNext ==
    \/ \E r \in Runs, u \in Users :
          /\ runDoc[r].status = "ABSENT"
          /\ initiate_hitl_task(r, u, TRUE, TRUE)
    \/ \E r \in Runs : open_task(r)
    \/ \E r \in Runs, t \in TaskNames :
          /\ ListedPending(r, t)
          /\ task_details_read(r, t, "alice")
    \/ \E q \in reqs : task_details_commit(q)
    \/ \E q \in reqs : task_details_prompt(q, TRUE)
    \/ \E q \in reqs : create_gate_file(q)
    \/ \E r \in Runs : run_adapt_pipeline(r)
    \/ \E r \in Runs, s \in Stages : StartTask(r, s)
    \/ \E r \in Runs, s \in Stages : main_handler(r, s, 200)
    \/ \E r \in Runs, s \in Stages : WaitGcpResourcesOp(r, s)
    \/ \E r \in Runs : video_main(r, TRUE)
    \/ \E r \in Runs, o \in {"http_error", "no_job_id", "job_id"} : start_job(r, o)
    \/ \E r \in Runs : poll_sleep(r)
    \/ \E r \in Runs, ok \in BOOLEAN, a \in Answers : poll_status(r, ok, a)
    \/ \E r \in Runs : after_loop(r)
    \/ \E r \in Runs, ok \in BOOLEAN : download_to_gcs_from_url(r, ok)
    \/ index("ok")
    \/ generate_brief_route("ok")
    \/ \E n \in 0..MaxGets, last \in {"done", "raise"}, saved \in BOOLEAN :
          approval(2, 2, OperationAnswers(n, last), saved)

PollSpec == Init /\ [][PollNext]_vars

\* the component's loop has been left by its test
LoopLeft(r) == video[r].pc \in {"after_loop", "download", "done"}
                  \/ (video[r].pc = "failed" /\ video[r].err = "RuntimeError_job")

\* in both poll loops every status fetch comes after one sleep of the fixed
\* interval
SleepBeforeEveryFetch ==
    /\ \A r \in Runs :
           /\ video[r].sleeps = video[r].polls + (IF video[r].pc = "get" THEN 1 ELSE 0)
           /\ video[r].slept = PollInterval * video[r].sleeps
    /\ web.poll.sleeps = web.poll.gets
    /\ web.poll.slept = WebPollInterval * web.poll.sleeps

\* the component's loop is left only after a status fetch
ComponentFetchesOnce ==
    \A r \in Runs : LoopLeft(r) => video[r].polls >= 1

\* C32 as stated: in the component and in the web application every status
\* fetch is preceded by one sleep of the fixed interval (60 and 10), the
\* sleeps are as many as the status fetches, and after a successful
\* submission at least one status fetch is made, also for a job that is
\* already terminal.
C32_OneFetchAfterEverySubmission ==
    /\ SleepBeforeEveryFetch
    /\ ComponentFetchesOnce
    /\ web.poll.submitted => web.poll.gets >= 1

\* C32 as the code has it: the same, but the web application makes no status
\* fetch and no sleep when the operation it was given at submission is
\* already done, and at least one fetch when it is not.
C32_SleepsEqualFetches ==
    /\ SleepBeforeEveryFetch
    /\ ComponentFetchesOnce
    /\ web.poll.submitted => (web.poll.gets >= 1 <=> web.poll.first = "running")

\* the component got its terminal answer at the first fetch, after one
\* sleep, and the web application's loop slept and fetched twice
C32_Witness ==
    /\ \E r \in Runs : /\ LoopLeft(r)
                       /\ video[r].polls = 1
                       /\ video[r].slept = PollInterval
                       /\ job[r].nonterminal = 0
    /\ web.poll.submitted
    /\ web.poll.outcome = "done"
    /\ web.poll.gets = 2
    /\ web.poll.slept = 2 * WebPollInterval

\* the keys of the session come in the order of the flow
SessionKeysOrdered ==
    /\ web.video_result # "" => web.ad_brief # 0
    /\ web.ad_brief # 0 => web.analysis_data # 0

\* the session key a route needs
Prerequisite(route) ==
    CASE route = "analysis_review" -> web.analysis_data # 0
      [] route = "generate_brief_route" -> web.analysis_data # 0
      [] route = "approval" -> web.ad_brief # 0
      [] route = "result" -> web.video_result # ""
      [] OTHER -> TRUE

\* what of the session the routes after / write
SessionKeys == <<web.analysis_data, web.ad_brief, web.final_brief, web.video_result>>

\* C33: after any sequence of requests, video_result in the session implies
\* ad_brief in the session, which implies analysis_data in the session; and
\* a request to /generate-brief, /approval or /result whose prerequisite key
\* is absent is answered with a redirect to the index, calls neither the
\* model nor the video job and leaves the session as it was.
C33_SessionStepsOrdered ==
    [][/\ SessionKeysOrdered'
       /\ (web'.last.route \in {"generate_brief_route", "approval", "result"}
              /\ ~Prerequisite(web'.last.route))
             => /\ web'.last.response = "redirect_index"
                /\ web'.last.called = "none"
                /\ SessionKeys' = SessionKeys]_vars

\* the whole flow was walked: all three keys are in the session and /result
\* renders the video result
C33_Witness ==
    /\ web.video_result # ""
    /\ web.ad_brief # 0
    /\ web.analysis_data # 0
    /\ web.last = Answer("result", "render", "none")

\* /approval was asked for before any brief was stored, and redirected
RedirectedWithoutBrief ==
    /\ web.analysis_data # 0
    /\ web.ad_brief = 0
    /\ web.last = Answer("approval", "redirect_index", "none")

\* C34: the styleGuidance that /approval puts into final_brief is the
\* style_analysis of the refined analysis from which the session's ad_brief
\* was generated, whatever the order of the requests in the session.
C34_StyleFromTheBriefsAnalysis ==
    web.final_brief # NoBrief
        => web.final_brief.style_of = web.final_brief.brief_of

\* what /approval does give: final_brief is put together from the ad_brief
\* and the analysis_data the session holds at that request
FinalBriefFromSessionAsItIs ==
    [][web'.final_brief # web.final_brief
          => /\ web'.final_brief.brief_of = web.ad_brief
             /\ web'.final_brief.style_of = web.analysis_data]_vars

\* C35: a POST / whose analysis is an error value or has no usps renders
\* the error, stores no analysis_data and issues no redirect; a POST
\* /generate-brief whose brief generation returns an error value renders the
\* error, stores no ad_brief and issues no redirect.
C35_FailedCallDoesNotAdvance ==
    [][/\ \A a \in {"error", "no_usps"} :
              index(a) => /\ web'.analysis_data = web.analysis_data
                          /\ web'.ad_brief = web.ad_brief
                          /\ web'.last.response = "render_error"
       /\ (web.analysis_data # 0 /\ generate_brief_route("error"))
              => /\ web'.ad_brief = web.ad_brief
                 /\ web'.final_brief = web.final_brief
                 /\ web'.video_result = web.video_result
                 /\ web'.last.response = "render_error"]_vars

\* brief generation failed in a session that holds an analysis and no brief:
\* the error is rendered and there is still no brief
C35_Witness ==
    /\ web.last = Answer("generate_brief_route", "render_error", "model")
    /\ web.analysis_data # 0
    /\ web.ad_brief = 0

\* what a failed brief generation does change: the refined analysis has
\* replaced analysis_data before generate_ad_brief is called
FailedBriefReplacesAnalysis ==
    [][(web.analysis_data # 0 /\ generate_brief_route("error"))
          => /\ web'.analysis_data # web.analysis_data
             /\ web'.analysis_data # 0]_vars

\* the bodies the claim names: not JSON, or one of the six fields missing or
\* empty
InvalidBody(body) ==
    ~body.is_json \/ \E f \in Fields : body.data[f] \in {"None", ""}

TaskGate(r, t) == IF t = T1 THEN approval_gate_1_uri(r) ELSE approval_gate_2_uri(r)

\* no gate is open for a Task that was not created
GateOnlyForCreatedTask ==
    \A r \in AllRuns : \A t \in TaskNames :
        Exists(TaskGate(r, t)) => taskDoc[r][t].status # "ABSENT"

\* C37: a resolve request for a Task that is not in the ledger is answered
\* 404 and changes nothing: no Task document is created or updated, no
\* artifact and no gate file is written and the request goes no further; so
\* no gate is ever open for a Task that was not created.
C37_AbsentTaskIsNotResolved ==
    [][/\ \A r \in Runs, t \in TaskNames :
              (taskDoc[r][t].status = "ABSENT" /\ task_details_http(r, t, "alice"))
                  => /\ http'.handler = "task_details"
                     /\ http'.code = 404
                     /\ taskDoc' = taskDoc
                     /\ runDoc' = runDoc
                     /\ gcs' = gcs
                     /\ reqs' = reqs
       /\ GateOnlyForCreatedTask']_vars

\* a resolve request for prompt_review, which nothing created, was answered
\* 404 while analysis_review of the same run was resolved and its gate opened
C37_Witness ==
    /\ http.handler = "task_details"
    /\ http.code = 404
    /\ nreq >= 2
    /\ \E r \in Runs : /\ taskDoc[r][T2].status = "ABSENT"
                       /\ ~Exists(approval_gate_2_uri(r))
                       /\ taskDoc[r][T1].status = "COMPLETED"
                       /\ Exists(approval_gate_1_uri(r))

\* the classes of an upstream error in the order of their priority
IsModelNotFound(msg) == {"404", "Publisher Model"} \subseteq msg
IsPermissionDenied(msg) ==
    ~IsModelNotFound(msg) /\ msg \cap {"403", "PERMISSION_DENIED"} # {}
IsAuthenticationError(msg) ==
    /\ ~IsModelNotFound(msg)
    /\ ~IsPermissionDenied(msg)
    /\ msg \cap {"401", "UNAUTHENTICATED"} # {}
IsUnclassified(msg) ==
    /\ ~IsModelNotFound(msg)
    /\ msg \cap {"403", "PERMISSION_DENIED", "401", "UNAUTHENTICATED"} = {}

\* C38: whichever of get_ai_analysis and generate_ad_brief caught the
\* exception, the error type it returns is MODEL_NOT_FOUND for a message with
\* "404" and "Publisher Model", otherwise PERMISSION_DENIED for one with "403"
\* or "PERMISSION_DENIED", otherwise AUTHENTICATION_ERROR for one with "401"
\* or "UNAUTHENTICATED", otherwise the exception's class name: one class for
\* every message, and the same in both functions.
C38_ErrorClassByPriority ==
    (gen.fn \in AppFunctions /\ gen.pc = "done" /\ gen.exc # {})
        => LET type == gen.error.error_type IN
           /\ type = "MODEL_NOT_FOUND" <=> IsModelNotFound(gen.exc)
           /\ type = "PERMISSION_DENIED" <=> IsPermissionDenied(gen.exc)
           /\ type = "AUTHENTICATION_ERROR" <=> IsAuthenticationError(gen.exc)
           /\ type = gen.exc_type <=> IsUnclassified(gen.exc)

\* generate_ad_brief caught an exception whose message holds both "403" and
\* "401" and returned PERMISSION_DENIED
C38_Witness ==
    /\ gen.fn = "generate_ad_brief"
    /\ gen.pc = "done"
    /\ gen.exc = {"403", "401"}
    /\ gen.error.error_type = "PERMISSION_DENIED"

\* C39: the list the review UI renders holds exactly the Tasks, of every
\* run, whose status is PENDING when the query is made: a Task that was
\* created and not resolved is on it, a Task that is COMPLETED or was never
\* created is not.
C39_PendingListIsExact ==
    [][hitl_ui_index
          => \A r \in AllRuns : \A t \in TaskNames :
                 /\ taskDoc[r][t].status = "PENDING" => <<r, t>> \in http'.tasks
                 /\ taskDoc[r][t].status = "COMPLETED" => <<r, t>> \notin http'.tasks
                 /\ taskDoc[r][t].status = "ABSENT" => <<r, t>> \notin http'.tasks]_vars

\* the list was asked for while the Task of one run was resolved and the
\* Task of another run was pending: only the second is listed
C39_Witness ==
    /\ http.handler = "index"
    /\ \E a, b \in AllRuns :
           /\ a # b
           /\ taskDoc[a][T1].status = "COMPLETED"
           /\ taskDoc[b][T1].status = "PENDING"
           /\ http.tasks = {<<b, T1>>}

====
